---- MODULE Spec2Model ----
(***************************************************************************)
(* FileSystemWatcher (src/base/filesystemwatcher.cpp): watched folders,     *)
(* the network poll timer, the partial-torrent retry table and its timer.   *)
(* Every handler of the class runs to completion on the single Qt event     *)
(* loop thread, so each handler is one atomic action.  The file system and  *)
(* the event loop are the environment.                                      *)
(*                                                                          *)
(* m_watchTimer and m_partialTorrentTimer are guarded pointers to QTimer    *)
(* (declared in filesystemwatcher.h): they read as null once the timer      *)
(* object is destroyed.  "delete t" destroys at once; "t->deleteLater()"    *)
(* destroys when the event loop handles the posted DeferredDelete event.    *)
(***************************************************************************)
EXTENDS Integers, Sequences, FiniteSets, TLC

\* ---------------------------------------------------------------- constants
\* A 32-bit f_type is written as its two 16-bit halves <<high, low>>:
\* 0xFF534D42, 0x6969, 0x517B, and 0xEF53 (ext4, a local file system).
CIFS_MAGIC_NUMBER == <<65363, 19778>>
NFS_SUPER_MAGIC == <<0, 26985>>
SMB_SUPER_MAGIC == <<0, 20859>>
EXT4_SUPER_MAGIC == <<0, 61267>>
MAX_PARTIAL_RETRIES == 5

\* ------------------------------------------------------------------- bounds
\* longest m_watchedFolders the model lets addPath build
MaxWatched == 2

\* --------------------------------------------------------- the environment
\* The directories of the model: two on network mounts, one on a local disk,
\* one that does not exist.
Dirs == {"N1", "N2", "L1", "X1"}

DirExists(d) == d # "X1"

\* what statfs() can answer for a directory: [ok, f_type]; the query of the
\* local directory may fail, and buf is then left as it was: uninitialized
\* stack memory that can hold any value, a network magic number included
StatFsResults(d) ==
    CASE d = "N1" -> {[ok |-> TRUE, f_type |-> NFS_SUPER_MAGIC]}
      [] d = "N2" -> {[ok |-> TRUE, f_type |-> CIFS_MAGIC_NUMBER],
                      [ok |-> TRUE, f_type |-> SMB_SUPER_MAGIC]}
      [] OTHER    -> {[ok |-> TRUE, f_type |-> EXT4_SUPER_MAGIC],
                      [ok |-> FALSE, f_type |-> <<0, 0>>],
                      [ok |-> FALSE, f_type |-> NFS_SUPER_MAGIC]}

\* A path is directory + base name + extension.
Path(d, n, e) == [dir |-> d, name |-> n, ext |-> e]

TorrentFiles == {Path("N1", "a", "torrent"), Path("L1", "b", "torrent")}
MagnetFiles == {Path("L1", "m", "magnet")}
Files == TorrentFiles \cup MagnetFiles

\* a file is absent, present but not (yet) a valid torrent, or valid
FileStates == {"absent", "malformed", "valid"}

VARIABLES
    m_watchedFolders,       \* QList<QDir>: the polled (network) folders
    m_watchTimer,           \* TRUE iff the pointer is non-null
    qfsDirectories,         \* QFileSystemWatcher::directories(): OS subscriptions
    m_partialTorrents,      \* QHash<QString, int>: path -> retry count
    m_partialTorrentTimer,  \* "none" | "active" | "stopped" (deleteLater pending)
    fileState,              \* the content found at each path of Files
    torrentsAdded,          \* the reports the last handler emitted
    renames,                \* path -> did it succeed, for each QFile::rename call
                            \* of the last handler
    lastOp,                 \* the handler that ran last
    statfsFailed,           \* the last handler wrote the "statfs() call failed"
                            \* diagnostic to std::cerr
    regTicks,               \* ticks that evaluated a path since its registration
    lifecycle               \* what those ticks found: "none", "failing",
                            \* "sawMissing", "sawValid"

vars == <<m_watchedFolders, m_watchTimer, qfsDirectories, m_partialTorrents,
          m_partialTorrentTimer, fileState, torrentsAdded, renames, lastOp,
          statfsFailed, regTicks, lifecycle>>

\* ------------------------------------------------------------------ helpers
Min(a, b) == IF a < b THEN a ELSE b

Tracked == DOMAIN m_partialTorrents

SeqToSet(s) == {s[i] : i \in 1..Len(s)}

\* every path of every report the last handler emitted
ReportedNow == UNION {SeqToSet(torrentsAdded[i]) : i \in 1..Len(torrentsAdded)}

Occurrences(s, x) == Cardinality({i \in 1..Len(s) : s[i] = x})

\* all orders in which a set can be listed
Perms(S) == {s \in [1..Cardinality(S) -> S] : \A i, j \in 1..Cardinality(S) : s[i] = s[j] => i = j}

RemoveAt(s, i) == SubSeq(s, 1, i - 1) \o SubSeq(s, i + 1, Len(s))

TickCap == MAX_PARTIAL_RETRIES + 2

\* ------------------------------------------------------------- pure helpers
\* m_filters << "*.torrent" << "*.magnet"
m_filters == {"torrent", "magnet"}

\* dir.entryList(m_filters, QDir::Files, QDir::Unsorted): the matching files
\* that exist in dir
entryList(dir) == {f \in Files : f.dir = dir /\ f.ext \in m_filters /\ fileState[f] # "absent"}

\* BitTorrent::TorrentInfo::loadFromFile(p).isValid()
isValid(file) == fileState[file] = "valid"

\* isNetworkFileSystem that compares f_type without looking at what statfs()
\* returned
isNetworkFileSystem_IgnoresFailure(buf) ==
    \/ buf.f_type = CIFS_MAGIC_NUMBER
    \/ buf.f_type = NFS_SUPER_MAGIC
    \/ buf.f_type = SMB_SUPER_MAGIC

\* isNetworkFileSystem(path) when statfs() answers buf
isNetworkFileSystem(buf) ==
    IF buf.ok
    THEN \/ buf.f_type = CIFS_MAGIC_NUMBER
         \/ buf.f_type = NFS_SUPER_MAGIC
         \/ buf.f_type = SMB_SUPER_MAGIC
    ELSE FALSE

startPartialTorrentTimer(timer) == IF timer = "none" THEN "active" ELSE timer

\* a scan that registers every invalid file, tracked or not
ShouldRegister_Always(file, partial) == TRUE

\* the branch of addTorrentsFromDir that registers a partial torrent:
\* !m_partialTorrents.contains(fileAbsPath)
ShouldRegister(file, partial) == file \notin DOMAIN partial

\* the loop of addTorrentsFromDir over the listing `files`
RECURSIVE addTorrentsLoop(_, _, _)
addTorrentsLoop(files, torrents, partial) ==
    IF files = <<>> THEN [torrents |-> torrents, partial |-> partial]
    ELSE LET file == Head(files) IN
         IF file.ext = "magnet"
         THEN addTorrentsLoop(Tail(files), Append(torrents, file), partial)
         ELSE IF isValid(file)
         THEN addTorrentsLoop(Tail(files), Append(torrents, file), partial)
         ELSE IF ShouldRegister(file, partial)
         THEN addTorrentsLoop(Tail(files), torrents, (file :> 0) @@ partial)
         ELSE addTorrentsLoop(Tail(files), torrents, partial)

\* addTorrentsFromDir(dir, torrents) on the state [torrents, partial, timer]
addTorrentsFromDir(files, st) ==
    LET r == addTorrentsLoop(files, st.torrents, st.partial) IN
    [torrents |-> r.torrents,
     partial |-> r.partial,
     timer |-> IF DOMAIN r.partial # {} THEN startPartialTorrentTimer(st.timer) ELSE st.timer]

\* foreach (dir, m_watchedFolders) addTorrentsFromDir(dir, torrents): the
\* states it can end in, one for every order in which the folders list their
\* entries (QDir::Unsorted)
RECURSIVE scanFolders(_, _)
scanFolders(folders, st) ==
    IF folders = <<>> THEN {st}
    ELSE UNION {scanFolders(Tail(folders), addTorrentsFromDir(files, st)) :
                    files \in Perms(entryList(Head(folders)))}

\* emit torrentsAdded(torrents) without the empty() test
Emit_Always(torrents) == <<torrents>>

\* if (!torrents.empty()) emit torrentsAdded(torrents)
Emit(torrents) == IF torrents # <<>> THEN <<torrents>> ELSE <<>>

\* the lambda with the ceiling compared by > instead of >=
PartialCase_OffByOne(file, value) ==
    IF fileState[file] = "absent" THEN "missing"
    ELSE IF isValid(file) THEN "ready"
    ELSE IF value > MAX_PARTIAL_RETRIES THEN "invalidate"
    ELSE "retry"

\* the lambda without the ceiling test
PartialCase_NoCeiling(file, value) ==
    IF fileState[file] = "absent" THEN "missing"
    ELSE IF isValid(file) THEN "ready"
    ELSE "retry"

\* the lambda with the ceiling tested before QFile::exists
PartialCase_CeilingFirst(file, value) ==
    IF value >= MAX_PARTIAL_RETRIES THEN "invalidate"
    ELSE IF fileState[file] = "absent" THEN "missing"
    ELSE IF isValid(file) THEN "ready"
    ELSE "retry"

\* the lambda of processPartialTorrents: what happens to one entry
PartialCase(file, value) ==
    IF fileState[file] = "absent" THEN "missing"
    ELSE IF isValid(file) THEN "ready"
    ELSE IF value >= MAX_PARTIAL_RETRIES THEN "invalidate"
    ELSE "retry"

\* for (i...) if (m_watchedFolders.at(i) == dir): the first matching index, 0 if none
RECURSIVE indexOfFolder(_, _, _)
indexOfFolder(folders, dir, i) ==
    IF i > Len(folders) THEN 0
    ELSE IF folders[i] = dir THEN i
    ELSE indexOfFolder(folders, dir, i + 1)

\* directories(): the polled folders if the poll timer exists (by their
\* canonical paths, which are the names of Dirs), then what the OS watcher
\* lists, in whatever order it lists it; the lists it can return
directories ==
    {(IF m_watchTimer THEN m_watchedFolders ELSE <<>>) \o q : q \in Perms(qfsDirectories)}

\* ------------------------------------------------------ observation history
\* What one step does to the per-path history, from the tracked set before
\* (m_partialTorrents) and after (partial2).
NextRegTicks(isTick) ==
    [f \in TorrentFiles |->
        IF f \in Tracked
        THEN IF isTick THEN Min(regTicks[f] + 1, TickCap) ELSE regTicks[f]
        ELSE 0]

NextLifecycle(isTick, partial2) ==
    [f \in TorrentFiles |->
        IF f \in Tracked
        THEN IF isTick /\ lifecycle[f] = "failing"
             THEN CASE fileState[f] = "absent" -> "sawMissing"
                    [] fileState[f] = "valid" -> "sawValid"
                    [] OTHER -> "failing"
             ELSE lifecycle[f]
        ELSE IF f \in DOMAIN partial2 THEN "failing" ELSE "none"]

\* the end of a handler: the new tracker state, the reports, the diagnostic
\* and the history
FinishLog(op, isTick, partial2, timer2, reports, renames2, failed) ==
    /\ statfsFailed' = failed
    /\ m_partialTorrents' = partial2
    /\ m_partialTorrentTimer' = timer2
    /\ torrentsAdded' = reports
    /\ renames' = renames2
    /\ lastOp' = op
    /\ regTicks' = NextRegTicks(isTick)
    /\ lifecycle' = NextLifecycle(isTick, partial2)

Finish(op, isTick, partial2, timer2, reports, renames2) ==
    FinishLog(op, isTick, partial2, timer2, reports, renames2, FALSE)

Idle(op) == Finish(op, FALSE, m_partialTorrents, m_partialTorrentTimer, <<>>, <<>>)

\* --------------------------------------------------------------------- Init
Init ==
    /\ m_watchedFolders = <<>>
    /\ m_watchTimer = FALSE
    /\ qfsDirectories = {}
    /\ m_partialTorrents = <<>>
    /\ m_partialTorrentTimer = "none"
    /\ fileState = [f \in Files |-> "absent"]
    /\ torrentsAdded = <<>>
    /\ renames = <<>>
    /\ lastOp = "init"
    /\ statfsFailed = FALSE
    /\ regTicks = [f \in TorrentFiles |-> 0]
    /\ lifecycle = [f \in TorrentFiles |-> "none"]

\* ----------------------------------------------------------------- handlers
\* scanLocalFolder(path) with the directory listed in the order `files`, in a
\* handler that did or did not write the statfs diagnostic before
scanLocalFolderLog(op, files, failed) ==
    LET st == addTorrentsFromDir(files,
                  [torrents |-> <<>>, partial |-> m_partialTorrents,
                   timer |-> m_partialTorrentTimer])
    IN FinishLog(op, FALSE, st.partial, st.timer, Emit(st.torrents), <<>>, failed)

scanLocalFolder(op, files) == scanLocalFolderLog(op, files, FALSE)

\* the Network branch of addPath: m_watchedFolders << dir
addNetworkFolder(folders, dir) == Append(folders, dir)

\* addPath without the exists() test
addPathReturnsEarly_Never(path) == FALSE

\* if (!dir.exists()) return;
addPathReturnsEarly(path) == ~DirExists(path)

addPath(path) ==
    IF addPathReturnsEarly(path)
    THEN /\ Idle("addPath")
         /\ UNCHANGED <<m_watchedFolders, m_watchTimer, qfsDirectories, fileState>>
    ELSE \E buf \in StatFsResults(path) :
         IF isNetworkFileSystem(buf)
         THEN /\ Len(m_watchedFolders) < MaxWatched
              /\ m_watchedFolders' = addNetworkFolder(m_watchedFolders, path)
              /\ m_watchTimer' = TRUE
              /\ Idle("addPath")
              /\ UNCHANGED <<qfsDirectories, fileState>>
         ELSE /\ qfsDirectories' = qfsDirectories \cup {path}
              /\ \E files \in Perms(entryList(path)) :
                     scanLocalFolderLog("addPath", files, ~buf.ok)
              /\ UNCHANGED <<m_watchedFolders, m_watchTimer, fileState>>

\* delete m_watchTimer without the isEmpty() test
watchTimerAfterRemove_Always(folders, timer) == FALSE

\* if (m_watchedFolders.isEmpty()) delete m_watchTimer
watchTimerAfterRemove(folders, timer) == IF folders = <<>> THEN FALSE ELSE timer

\* a removePath that also forgets the partial files of the directory
removePath_ForgetsPartials(path) ==
    LET i == indexOfFolder(m_watchedFolders, path, 1)
        kept == {f \in Tracked : f.dir # path}
    IN
    /\ IF i # 0
       THEN /\ m_watchedFolders' = RemoveAt(m_watchedFolders, i)
            /\ m_watchTimer' = watchTimerAfterRemove(m_watchedFolders', m_watchTimer)
            /\ UNCHANGED qfsDirectories
       ELSE /\ qfsDirectories' = qfsDirectories \ {path}
            /\ UNCHANGED <<m_watchedFolders, m_watchTimer>>
    /\ Finish("removePath", FALSE, [f \in kept |-> m_partialTorrents[f]],
              m_partialTorrentTimer, <<>>, <<>>)
    /\ UNCHANGED fileState

removePath(path) ==
    LET i == indexOfFolder(m_watchedFolders, path, 1) IN
    /\ IF i # 0
       THEN /\ m_watchedFolders' = RemoveAt(m_watchedFolders, i)
            /\ m_watchTimer' = watchTimerAfterRemove(m_watchedFolders', m_watchTimer)
            /\ UNCHANGED qfsDirectories
       ELSE /\ qfsDirectories' = qfsDirectories \ {path}
            /\ UNCHANGED <<m_watchedFolders, m_watchTimer>>
    /\ Idle("removePath")
    /\ UNCHANGED fileState

\* QFileSystemWatcher::directoryChanged(path) -> scanLocalFolder(path)
directoryChanged(path) ==
    /\ path \in qfsDirectories
    /\ \E files \in Perms(entryList(path)) : scanLocalFolder("directoryChanged", files)
    /\ UNCHANGED <<m_watchedFolders, m_watchTimer, qfsDirectories, fileState>>

\* m_watchTimer's timeout -> scanNetworkFolders()
scanNetworkFolders ==
    /\ m_watchTimer
    /\ \E st \in scanFolders(m_watchedFolders,
                            [torrents |-> <<>>, partial |-> m_partialTorrents,
                             timer |-> m_partialTorrentTimer]) :
         Finish("scanNetworkFolders", FALSE, st.partial, st.timer, Emit(st.torrents), <<>>)
    /\ UNCHANGED <<m_watchedFolders, m_watchTimer, qfsDirectories, fileState>>

\* the timer at the end of processPartialTorrents: stop() + deleteLater() if
\* nothing is tracked any more, start(WATCH_INTERVAL) otherwise
partialTimerAfterTick(partial) == IF DOMAIN partial = {} THEN "stopped" ELSE "active"

\* m_partialTorrentTimer's timeout -> processPartialTorrents(); QFile::rename
\* can fail, and the code does not look at its result
processPartialTorrents ==
    /\ m_partialTorrentTimer = "active"
    /\ LET case == [f \in Tracked |-> PartialCase(f, m_partialTorrents[f])]
           kept == {f \in Tracked : case[f] = "retry"}
           ready == {f \in Tracked : case[f] = "ready"}
           doomed == {f \in Tracked : case[f] = "invalidate"}
           partial2 == [f \in kept |-> m_partialTorrents[f] + 1]
       IN \E noLongerPartial \in Perms(ready), result \in [doomed -> BOOLEAN] :
            /\ fileState' = [f \in Files |->
                                IF f \in doomed /\ result[f] THEN "absent" ELSE fileState[f]]
            /\ Finish("processPartialTorrents", TRUE, partial2,
                      partialTimerAfterTick(partial2), Emit(noLongerPartial), result)
    /\ UNCHANGED <<m_watchedFolders, m_watchTimer, qfsDirectories>>

\* the event loop handles the DeferredDelete event posted by deleteLater():
\* the timer object is destroyed and the guarded pointer reads null
deferredDelete ==
    /\ m_partialTorrentTimer = "stopped"
    /\ Finish("idle", FALSE, m_partialTorrents, "none", <<>>, <<>>)
    /\ UNCHANGED <<m_watchedFolders, m_watchTimer, qfsDirectories, fileState>>

\* the environment writes, completes, corrupts or removes a file; a magnet
\* file too can hold anything
fileChanged(f, s) ==
    /\ fileState[f] # s
    /\ fileState' = [fileState EXCEPT ![f] = s]
    /\ Idle("idle")
    /\ UNCHANGED <<m_watchedFolders, m_watchTimer, qfsDirectories>>

\* --------------------------------------------------------------------- Next
\* Calls of the application come from its own event handlers; the model lets
\* them in once a pending DeferredDelete has been handled.  Timeouts and
\* notifications that are due in the same pass of the event loop can run
\* before it.
AddPath == m_partialTorrentTimer # "stopped" /\ \E path \in Dirs : addPath(path)
RemovePath == m_partialTorrentTimer # "stopped" /\ \E path \in Dirs : removePath(path)
DirectoryChanged == \E path \in Dirs : directoryChanged(path)
WatchTimeout == scanNetworkFolders
PartialTimeout == processPartialTorrents
DeferredDelete == deferredDelete
FileChanged == \E f \in Files, s \in FileStates : fileChanged(f, s)

Next ==
    \/ AddPath
    \/ RemovePath
    \/ DirectoryChanged
    \/ WatchTimeout
    \/ PartialTimeout
    \/ DeferredDelete
    \/ FileChanged

Spec == Init /\ [][Next]_vars

\* The event loop delivers the timeout of a running timer and a posted
\* DeferredDelete.  The poll timer is taken to fire even if the application
\* keeps removing and adding Network folders (strong fairness).  Directory
\* notifications and calls are up to the environment.
FairSpec ==
    Spec /\ WF_vars(PartialTimeout) /\ SF_vars(WatchTimeout) /\ WF_vars(DeferredDelete)

\* ------------------------------------------------------------------- claims
\* f was registered as partial, and every tick since found it present and malformed
FailingRun(f) == lifecycle[f] = "failing"

\* C1 (as stated): a file that fails validation at every tick is, after
\* exactly MAX_PARTIAL_RETRIES = 5 ticks, no longer tracked, renamed and unreported.
C1_RemovedAfterCeilingTicks ==
    \A f \in TorrentFiles :
        (FailingRun(f) /\ regTicks[f] = MAX_PARTIAL_RETRIES)
            => /\ f \notin Tracked
               /\ f \in DOMAIN renames
               /\ f \notin ReportedNow

\* C1 (amended): a file that fails validation at every tick is still tracked
\* after each of the first 5 ticks and leaves the partial set at the 6th
\* tick, which calls QFile::rename(path, path + ".invalid") for it; the file
\* is gone from its path if the rename succeeded and is left as it was if
\* not; no tick reports it.
C1_RemovedAfterCeilingPlusOneTicks ==
    \A f \in TorrentFiles :
        FailingRun(f) =>
            /\ regTicks[f] <= MAX_PARTIAL_RETRIES + 1
            /\ regTicks[f] <= MAX_PARTIAL_RETRIES => (f \in Tracked /\ f \notin DOMAIN renames)
            /\ regTicks[f] = MAX_PARTIAL_RETRIES + 1 =>
                   /\ f \notin Tracked
                   /\ f \in DOMAIN renames
                   /\ fileState[f] = (IF renames[f] THEN "absent" ELSE "malformed")
            /\ lastOp = "processPartialTorrents" => f \notin ReportedNow

C1_Witness ==
    \E f \in TorrentFiles :
        /\ FailingRun(f) /\ regTicks[f] = MAX_PARTIAL_RETRIES + 1
        /\ f \in DOMAIN renames /\ renames[f] /\ fileState[f] = "absent"

\* C2: when a tick finds a tracked file valid it reports it, drops it and
\* does not rename it, and that report is the only one that holds the file:
\* the handler that ran just before the tick did not report it already.
C2_ReportedOnceAtTick ==
    [][\A f \in TorrentFiles :
          (f \in Tracked /\ fileState[f] = "valid" /\ lastOp' = "processPartialTorrents")
              => /\ f \in ReportedNow'
                 /\ f \notin Tracked'
                 /\ f \notin DOMAIN renames'
                 /\ f \notin ReportedNow]_vars

\* C3: no path is both in the report a pass just emitted and still tracked
\* as partial.
C3_ReadyNotTracked == ReportedNow \cap Tracked = {}

\* C4: a tracked entry has survived at most 5 ticks (so it leaves by the
\* 6th), and every tracked path eventually stops being tracked.
C4_LeavesWithinSixTicks ==
    /\ [](\A f \in Tracked : regTicks[f] <= MAX_PARTIAL_RETRIES)
    /\ \A f \in TorrentFiles : (f \in Tracked) ~> (f \notin Tracked)

\* C5: after a failed invalidation rename the entry is gone from the partial
\* set and the file, still malformed under its .torrent name, is not
\* registered again by the next handler.
C5_FailedRenameNotObservedAgain ==
    [][\A f \in TorrentFiles :
          (f \in DOMAIN renames /\ ~renames[f] /\ fileState'[f] = "malformed")
              => (f \notin Tracked /\ f \notin Tracked')]_vars

\* C6: every tracked entry has a retry count between 0 and MAX_PARTIAL_RETRIES.
C6_RetryCountWithinCeiling ==
    \A f \in Tracked : 0 <= m_partialTorrents[f] /\ m_partialTorrents[f] <= MAX_PARTIAL_RETRIES

C6_Witness == \E f \in Tracked : m_partialTorrents[f] = MAX_PARTIAL_RETRIES

\* C7: after k < MAX_PARTIAL_RETRIES ticks that all found the file present
\* and malformed, the file is tracked with retry count k.
C7_CountEqualsFailedTicks ==
    \A f \in TorrentFiles :
        (FailingRun(f) /\ regTicks[f] < MAX_PARTIAL_RETRIES)
            => (f \in Tracked /\ m_partialTorrents[f] = regTicks[f])

C7_Witness ==
    \E f \in Tracked :
        /\ FailingRun(f) /\ regTicks[f] = MAX_PARTIAL_RETRIES - 1
        /\ m_partialTorrents[f] = MAX_PARTIAL_RETRIES - 1
        /\ lastOp = "processPartialTorrents"

\* C8: the network poll timer exists iff some Network directory is watched.
C8_WatchTimerIffNetworkFolders == m_watchTimer <=> (m_watchedFolders # <<>>)

\* removePath has just run and a Network directory is still watched, with the timer
C8_Witness ==
    /\ lastOp = "removePath"
    /\ Len(m_watchedFolders) = 1
    /\ m_watchTimer

\* C9: the reconciliation timer is there and running iff the partial set is
\* non-empty.
C9_PartialTimerIffTracked == (m_partialTorrentTimer = "active") <=> (Tracked # {})

\* C10: no Network directory is in the watched list twice, and a poll's
\* report holds no path twice.
C10_AddPathIdempotent ==
    /\ \A i, j \in 1..Len(m_watchedFolders) : m_watchedFolders[i] = m_watchedFolders[j] => i = j
    /\ lastOp = "scanNetworkFolders" =>
           \A i \in 1..Len(torrentsAdded) : \A f \in Files : Occurrences(torrentsAdded[i], f) <= 1

\* C11: right after removePath(p) the path p is not in the polled list (so
\* no later poll scans it), not subscribed with the OS, and not in
\* directories().
C11_RemovePathEndsWatch ==
    [][\A p \in Dirs :
          (lastOp' = "removePath" /\ removePath(p))
              => /\ p \notin SeqToSet(m_watchedFolders')
                 /\ p \notin qfsDirectories'
                 /\ \A l \in directories' : p \notin SeqToSet(l)]_vars

\* C12: directories() lists exactly the OS-subscribed and the polled
\* directories, each of them once.
C12_DirectoriesIsUnion ==
    \A l \in directories :
        /\ SeqToSet(l) = qfsDirectories \cup SeqToSet(m_watchedFolders)
        /\ \A d \in Dirs : Occurrences(l, d) <= 1

\* the paths a pass over the directories dirs finds ready: magnet files, and
\* torrent files that are valid
ReadyIn(dirs) ==
    {f \in Files : /\ f.dir \in dirs
                   /\ fileState[f] # "absent"
                   /\ (f \in MagnetFiles \/ fileState[f] = "valid")}

\* the tracked paths a tick finds ready
ReadyAtTick == {f \in Tracked : fileState[f] = "valid"}

\* the step emits one report that holds the paths of S, or none if S is empty
OneReportOf(S) ==
    IF S = {} THEN torrentsAdded' = <<>>
    ELSE Len(torrentsAdded') = 1 /\ SeqToSet(torrentsAdded'[1]) = S

\* C13: a local scan, a network poll and a tick each emit one report with
\* all the paths the pass found ready, and no report if it found none.
C13_OneReportPerPass ==
    [][/\ \A d \in Dirs :
            (lastOp' = "directoryChanged" /\ directoryChanged(d)) => OneReportOf(ReadyIn({d}))
       /\ \A d \in Dirs :
            (lastOp' = "addPath" /\ d \in qfsDirectories' /\ addPath(d))
                => OneReportOf(ReadyIn({d}))
       /\ lastOp' = "scanNetworkFolders" => OneReportOf(ReadyIn(SeqToSet(m_watchedFolders)))
       /\ lastOp' = "processPartialTorrents" => OneReportOf(ReadyAtTick)]_vars

\* a notification's scan of the local directory reported two paths at once
C13_Witness ==
    /\ lastOp = "directoryChanged"
    /\ Len(torrentsAdded) = 1
    /\ Len(torrentsAdded[1]) = 2

\* the step is a scan of the local directory d: a notification for d, or
\* addPath(d) taking the normal-mode branch
LocalScanOf(d) ==
    \/ lastOp' = "directoryChanged" /\ directoryChanged(d)
    \/ lastOp' = "addPath" /\ d \in qfsDirectories' /\ addPath(d)

\* C14: a scan reports every magnet file it lists, whatever the file holds;
\* no magnet file is ever tracked as partial; and the scan of a directory
\* that holds nothing but magnet files leaves the partial set and the
\* reconciliation timer as they were.
C14_MagnetReportedNeverPartial ==
    [][/\ \A f \in MagnetFiles : f \notin Tracked'
       /\ \A d \in Dirs :
            LocalScanOf(d) =>
                /\ \A f \in entryList(d) \cap MagnetFiles : f \in ReportedNow'
                /\ (entryList(d) # {} /\ entryList(d) \subseteq MagnetFiles)
                       => UNCHANGED <<m_partialTorrents, m_partialTorrentTimer>>
       /\ lastOp' = "scanNetworkFolders" =>
            \A f \in MagnetFiles :
                (f.dir \in SeqToSet(m_watchedFolders) /\ fileState[f] # "absent")
                    => f \in ReportedNow']_vars

\* C15: a tick drops every tracked path whose file is gone, does not report
\* it and does not try to rename it, whatever its retry count.
C15_MissingFileDropped ==
    [][lastOp' = "processPartialTorrents" =>
          \A f \in Tracked :
              fileState[f] = "absent"
                  => /\ f \notin Tracked'
                     /\ f \notin ReportedNow'
                     /\ f \notin DOMAIN renames']_vars

\* the tick that found the file gone was the sixth since its registration:
\* the retry count stood at the ceiling
C15_Witness ==
    /\ lastOp = "processPartialTorrents"
    /\ \E f \in TorrentFiles :
          /\ lifecycle[f] = "sawMissing"
          /\ regTicks[f] = MAX_PARTIAL_RETRIES + 1
          /\ f \notin Tracked
          /\ f \notin DOMAIN renames

\* the step is a directory scan: addPath, a notification or a network poll
IsScanStep == lastOp' \in {"addPath", "directoryChanged", "scanNetworkFolders"}

\* C16: a scan leaves every tracked path tracked with its retry count; what
\* it adds is an untracked invalid file, at count 0; only a tick changes
\* the count of a path.
C16_ScanKeepsRetryCounts ==
    [][/\ IsScanStep =>
            /\ \A f \in Tracked :
                  f \in Tracked' /\ m_partialTorrents'[f] = m_partialTorrents[f]
            /\ \A f \in Tracked' \ Tracked :
                  m_partialTorrents'[f] = 0 /\ fileState[f] = "malformed"
       /\ (\E f \in Tracked \cap Tracked' : m_partialTorrents'[f] # m_partialTorrents[f])
              => lastOp' = "processPartialTorrents"]_vars

\* a notification's scan has just listed a still invalid file that is
\* tracked with its count at the ceiling
C16_Witness ==
    /\ lastOp = "directoryChanged"
    /\ \E f \in Tracked :
          /\ f.dir \in qfsDirectories
          /\ fileState[f] = "malformed"
          /\ m_partialTorrents[f] = MAX_PARTIAL_RETRIES

\* C17: addPath of a directory that does not exist changes neither the
\* polled list, the OS subscriptions, the two timers nor the partial set,
\* and emits no report.
C17_AddPathMissingDirNoOp ==
    [][\A p \in Dirs :
          (lastOp' = "addPath" /\ ~DirExists(p) /\ addPath(p))
              => /\ UNCHANGED <<m_watchedFolders, m_watchTimer, qfsDirectories,
                                m_partialTorrents, m_partialTorrentTimer>>
                 /\ torrentsAdded' = <<>>]_vars

\* addPath has just run and nothing is watched: no addPath of an existing
\* directory ends so; partial files of an earlier watch are still tracked
C17_Witness ==
    /\ lastOp = "addPath"
    /\ m_watchedFolders = <<>>
    /\ qfsDirectories = {}
    /\ Tracked # {}
    /\ m_partialTorrentTimer = "active"

\* the f_type values that stand for a network file system
NetworkTypes == {CIFS_MAGIC_NUMBER, NFS_SUPER_MAGIC, SMB_SUPER_MAGIC}

\* C18: when statfs() fails for an existing directory, addPath subscribes it
\* with the OS and scans it at once, and leaves the polled list and the poll
\* timer alone; addPath puts a directory in the polled list only if statfs()
\* succeeds with the CIFS, NFS or SMB identifier.
C18_StatfsFailureIsLocal ==
    [][\A p \in Dirs :
          (lastOp' = "addPath" /\ DirExists(p) /\ addPath(p))
              => /\ statfsFailed' =>
                       /\ p \in qfsDirectories'
                       /\ UNCHANGED <<m_watchedFolders, m_watchTimer>>
                       /\ OneReportOf(ReadyIn({p}))
                 /\ m_watchedFolders' # m_watchedFolders =>
                       \A buf \in StatFsResults(p) : buf.ok /\ buf.f_type \in NetworkTypes]_vars

\* addPath has just run with a failing statfs(): the directory is subscribed
\* and its scan has reported a file
C18_Witness ==
    /\ lastOp = "addPath"
    /\ statfsFailed
    /\ qfsDirectories # {}
    /\ torrentsAdded # <<>>

\* C19: whenever paths are tracked as partial, a reconciliation timer is
\* armed for them.
C19_TrackedImpliesTimerArmed == Tracked # {} => m_partialTorrentTimer = "active"

\* the directories that are watched, either way
Watched == qfsDirectories \cup SeqToSet(m_watchedFolders)

\* C20: removePath changes neither the partial set nor the reconciliation
\* timer, and a tick treats the tracked files of a directory that is not
\* watched any more as it treats the others: reported if valid, renamed at
\* the ceiling, counted otherwise.
C20_RemovePathKeepsPartials ==
    [][/\ lastOp' = "removePath" => UNCHANGED <<m_partialTorrents, m_partialTorrentTimer>>
       /\ lastOp' = "processPartialTorrents" =>
            \A f \in Tracked :
                f.dir \notin Watched =>
                    CASE fileState[f] = "absent" -> f \notin Tracked'
                      [] fileState[f] = "valid" -> f \in ReportedNow' /\ f \notin Tracked'
                      [] m_partialTorrents[f] >= MAX_PARTIAL_RETRIES ->
                             f \in DOMAIN renames' /\ f \notin Tracked'
                      [] OTHER ->
                             f \in Tracked' /\ m_partialTorrents'[f] = m_partialTorrents[f] + 1]_vars

\* a tick has just renamed a file of a directory that is no longer watched
C20_Witness ==
    /\ lastOp = "processPartialTorrents"
    /\ \E f \in DOMAIN renames : f.dir \notin Watched /\ renames[f]

====
